---- MODULE Spec2Model ----
(***************************************************************************)
(* A model of the NexusDB HTTP client (nexus_python/nexusdb.py).           *)
(*                                                                         *)
(* The client holds a static configuration (base_url, api_key, headers).   *)
(* Every operation builds a JSON payload, issues one requests.post and     *)
(* either returns response.text or hands the response to                   *)
(* _process_response, which decodes the tagged cells of a tabular body.    *)
(*                                                                         *)
(* Python values (dict, list, str, int, float, bool, None) and JSON values *)
(* are one universe here: records [k, n, s, keys, items] where k names the *)
(* kind.  A dict keeps its insertion order: keys[i] maps to items[i].      *)
(***************************************************************************)
EXTENDS Integers, Sequences, FiniteSets, TLC

VARIABLES environ, init_args, base_url, api_key, headers, posts, last_request,
          call, outcome

vars == <<environ, init_args, base_url, api_key, headers, posts, last_request,
          call, outcome>>

\* what no operation touches: the process environment, the arguments the
\* client was constructed with, and the client's three attributes
client == <<environ, init_args, base_url, api_key, headers>>

(***************************************************************************)
(* Bounds of the model                                                     *)
(***************************************************************************)
MaxColumns == 2    \* column specs handed to create()
MaxRows == 2       \* rows of a grid response
MaxCols == 2       \* cells of a grid row, and headers of a grid response
MaxListLen == 2    \* elements of a "List" cell
MaxDepth == 1      \* times a "List" cell is wrapped in a further "List"
MaxPosts == 2      \* POSTs after which a session of calls on one client ends

(***************************************************************************)
(* Python / JSON values                                                    *)
(***************************************************************************)
None == [k |-> "null", n |-> 0, s |-> "", keys |-> <<>>, items |-> <<>>]
PyBool(b) == [k |-> "bool", n |-> IF b THEN 1 ELSE 0, s |-> "", keys |-> <<>>, items |-> <<>>]
PyInt(i) == [k |-> "int", n |-> i, s |-> "", keys |-> <<>>, items |-> <<>>]
\* a float is kept in tenths: PyFloat(15) is 1.5
PyFloat(t) == [k |-> "float", n |-> t, s |-> "", keys |-> <<>>, items |-> <<>>]
PyStr(str) == [k |-> "str", n |-> 0, s |-> str, keys |-> <<>>, items |-> <<>>]
PyList(xs) == [k |-> "list", n |-> 0, s |-> "", keys |-> <<>>, items |-> xs]
PyDict(ks, xs) == [k |-> "dict", n |-> 0, s |-> "", keys |-> ks, items |-> xs]

True == PyBool(TRUE)
False == PyBool(FALSE)

Range(f) == {f[i] : i \in DOMAIN f}

HasKey(d, key) == \E i \in DOMAIN d.keys : d.keys[i] = key

\* d[key] of a dict that has the key
Item(d, key) == d.items[CHOOSE i \in DOMAIN d.keys : d.keys[i] = key]

\* d.get(key, dflt)
Get(d, key, dflt) == IF HasKey(d, key) THEN Item(d, key) ELSE dflt

\* d[key] = value: an existing key keeps its position, a new one is appended
SetItem(d, key, value) ==
    IF HasKey(d, key)
    THEN [d EXCEPT !.items = [i \in DOMAIN d.items |->
                                 IF d.keys[i] = key THEN value ELSE d.items[i]]]
    ELSE [d EXCEPT !.keys = Append(d.keys, key), !.items = Append(d.items, value)]

\* bool(v)
Truthy(v) ==
    CASE v.k = "null" -> FALSE
      [] v.k \in {"bool", "int", "float"} -> v.n # 0
      [] v.k = "str" -> v.s # ""
      [] v.k = "list" -> v.items # <<>>
      [] v.k = "dict" -> v.keys # <<>>

IsSubstring(a, b) ==
    \E i \in 1..(Len(b) - Len(a) + 1) : SubSeq(b, i, i + Len(a) - 1) = a

\* `key in v` for a str key: "T", "F", or the exception Python raises
Contains(v, key) ==
    CASE v.k = "dict" -> IF HasKey(v, key) THEN "T" ELSE "F"
      [] v.k = "list" -> IF PyStr(key) \in Range(v.items) THEN "T" ELSE "F"
      [] v.k = "str" -> IF key = "" \/ IsSubstring(key, v.s) THEN "T" ELSE "F"
      [] OTHER -> "TypeError"

\* `v[key]` for a str key: is it an error, and which
SubscriptError(v, key) ==
    CASE v.k = "dict" -> IF HasKey(v, key) THEN "" ELSE "KeyError"
      [] OTHER -> "TypeError"

\* what `for item in v` yields, for the kinds that can be iterated
IterItems(v) ==
    CASE v.k = "list" -> v.items
      [] v.k = "dict" -> [i \in DOMAIN v.keys |-> PyStr(v.keys[i])]
      [] v.k = "str" -> [i \in 1..Len(v.s) |-> PyStr(SubSeq(v.s, i, i))]
      [] OTHER -> <<>>

Iterable(v) == v.k \in {"list", "dict", "str"}

(***************************************************************************)
(* str(), json.dumps() and the server's compact serialisation              *)
(***************************************************************************)
FloatText(t) ==
    (IF t < 0 THEN "-" ELSE "") \o
    ToString((IF t < 0 THEN -t ELSE t) \div 10) \o "." \o
    ToString((IF t < 0 THEN -t ELSE t) % 10)

RECURSIVE Repr(_)
RECURSIVE ReprItems(_, _, _)
\* items i.. of a dict (ks # <<>>) or list (ks = <<>>) body, ", "-separated
ReprItems(ks, xs, i) ==
    IF i > Len(xs) THEN ""
    ELSE (IF i > 1 THEN ", " ELSE "") \o
         (IF ks # <<>> THEN "'" \o ks[i] \o "': " ELSE "") \o
         Repr(xs[i]) \o ReprItems(ks, xs, i + 1)
\* repr(v); str(v) of a dict or list is its repr
Repr(v) ==
    CASE v.k = "null" -> "None"
      [] v.k = "bool" -> IF v.n = 1 THEN "True" ELSE "False"
      [] v.k = "int" -> ToString(v.n)
      [] v.k = "float" -> FloatText(v.n)
      [] v.k = "str" -> "'" \o v.s \o "'"
      [] v.k = "list" -> "[" \o ReprItems(<<>>, v.items, 1) \o "]"
      [] v.k = "dict" -> "{" \o ReprItems(v.keys, v.items, 1) \o "}"

\* str(v)
Str(v) == IF v.k = "str" THEN v.s ELSE Repr(v)

RECURSIVE Dumps(_, _)
RECURSIVE DumpsItems(_, _, _, _)
DumpsItems(ks, xs, i, sp) ==
    IF i > Len(xs) THEN ""
    ELSE (IF i > 1 THEN "," \o sp ELSE "") \o
         (IF ks # <<>> THEN "\"" \o ks[i] \o "\":" \o sp ELSE "") \o
         Dumps(xs[i], sp) \o DumpsItems(ks, xs, i + 1, sp)
\* JSON text of v, with `sp` after each separator
Dumps(v, sp) ==
    CASE v.k = "null" -> "null"
      [] v.k = "bool" -> IF v.n = 1 THEN "true" ELSE "false"
      [] v.k = "int" -> ToString(v.n)
      [] v.k = "float" -> FloatText(v.n)
      [] v.k = "str" -> "\"" \o v.s \o "\""
      [] v.k = "list" -> "[" \o DumpsItems(<<>>, v.items, 1, sp) \o "]"
      [] v.k = "dict" -> "{" \o DumpsItems(v.keys, v.items, 1, sp) \o "}"

\* json.dumps(v) with Python's default separators (", ", ": ")
json_dumps(v) == Dumps(v, " ")

\* the body text the server sends for a document (compact separators)
WireText(v) == Dumps(v, "")

(***************************************************************************)
(* extract_value_and_type: the tagged-value decoder                        *)
(***************************************************************************)
\* a returned (value, label) pair, or a raised exception
Returned(value, label) == [exc |-> "", value |-> value, label |-> label]
Raised(exc) == [exc |-> exc, value |-> None, label |-> ""]

\* the `key == "Num"` branch: None when neither test matches (the loop goes on)
NumBranch(value) ==
    LET hasInt == Contains(value, "Int")
        hasFloat == Contains(value, "Float")
    IN  IF hasInt = "TypeError" THEN Raised("TypeError")
        ELSE IF hasInt = "T"
        THEN IF SubscriptError(value, "Int") # ""
             THEN Raised(SubscriptError(value, "Int"))
             ELSE Returned(Item(value, "Int"), "Int")
        ELSE IF hasFloat = "T"
        THEN IF SubscriptError(value, "Float") # ""
             THEN Raised(SubscriptError(value, "Float"))
             ELSE Returned(Item(value, "Float"), "Float")
        ELSE Returned(None, "")

RECURSIVE extract_value_and_type(_)
RECURSIVE ScanKeys(_, _)
RECURSIVE ExtractValues(_, _)

\* [extract_value_and_type(item)[0] for item in xs[i..]]: the values, or the
\* first exception
ExtractValues(xs, i) ==
    IF i > Len(xs) THEN [exc |-> "", values |-> <<>>]
    ELSE LET head == extract_value_and_type(xs[i])
         IN  IF head.exc # "" THEN [exc |-> head.exc, values |-> <<>>]
             ELSE LET rest == ExtractValues(xs, i + 1)
                  IN  IF rest.exc # "" THEN rest
                      ELSE [exc |-> "", values |-> <<head.value>> \o rest.values]

\* the `for key, value in cell.items()` loop from the i-th key on
ScanKeys(cell, i) ==
    IF i > Len(cell.keys) THEN Returned(PyStr(Str(cell)), "Unknown")
    ELSE LET key == cell.keys[i]
             value == cell.items[i]
         IN  CASE key = "Num" ->
                    LET r == NumBranch(value)
                    IN  IF r.exc = "" /\ r.label = "" THEN ScanKeys(cell, i + 1) ELSE r
               [] key = "Str" -> Returned(value, "Str")
               [] key = "Bool" -> Returned(value, "Bool")
               [] key = "Uuid" -> Returned(value, "Uuid")
               [] key = "Json" -> Returned(value, "Json")
               [] key = "List" ->
                    IF ~Iterable(value) THEN Raised("TypeError")
                    ELSE LET r == ExtractValues(IterItems(value), 1)
                         IN  IF r.exc # "" THEN Raised(r.exc)
                             ELSE Returned(PyList(r.values), "List")
               [] OTHER -> ScanKeys(cell, i + 1)

extract_value_and_type(cell) ==
    IF cell.k = "dict" THEN ScanKeys(cell, 1) ELSE Returned(cell, "Unknown")

(***************************************************************************)
(* _process_response: the response shaper                                  *)
(***************************************************************************)
\* what a call hands back: a returned str, a table rendered by tabulate (kept
\* as the arguments given to it), or a raised exception
ReturnText(text) ==
    [exc |-> "", form |-> "text", text |-> text, table_headers |-> <<>>, table_rows |-> <<>>]
Raise(exc) ==
    [exc |-> exc, form |-> "", text |-> "", table_headers |-> <<>>, table_rows |-> <<>>]
\* tabulate(rows, headers=hdrs) of the tabulate package
Tabulate(rows, hdrs) ==
    [exc |-> "", form |-> "table", text |-> "", table_headers |-> hdrs, table_rows |-> rows]

NoOutcome == [exc |-> "", form |-> "none", text |-> "", table_headers |-> <<>>, table_rows |-> <<>>]

\* a requests.Response: its text and what response.json() gives for that text
JSONDecodeError == PyStr("<JSONDecodeError>")
Response(text, json) == [text |-> text, json |-> json]

RECURSIVE TypedHeaders(_, _, _)
\* [f"{headers[i]} ({extract_value_and_type(cell)[1]})" for i, cell in
\*  enumerate(first_row)] from cell i on: the strings, or the first exception
TypedHeaders(hdrs, first_row, i) ==
    IF i > Len(first_row) THEN [exc |-> "", values |-> <<>>]
    ELSE IF i > Len(hdrs) THEN [exc |-> "IndexError", values |-> <<>>]
    ELSE LET d == extract_value_and_type(first_row[i])
         IN  IF d.exc # "" THEN [exc |-> d.exc, values |-> <<>>]
             ELSE LET rest == TypedHeaders(hdrs, first_row, i + 1)
                  IN  IF rest.exc # "" THEN rest
                      ELSE [exc |-> "",
                            values |-> <<PyStr(Str(hdrs[i]) \o " (" \o d.label \o ")")>>
                                       \o rest.values]

RECURSIVE SimplifiedRows(_, _)
\* [[extract_value_and_type(cell)[0] for cell in row] for row in rows[i..]]
SimplifiedRows(rows, i) ==
    IF i > Len(rows) THEN [exc |-> "", values |-> <<>>]
    ELSE LET row == ExtractValues(rows[i].items, 1)
         IN  IF row.exc # "" THEN row
             ELSE LET rest == SimplifiedRows(rows, i + 1)
                  IN  IF rest.exc # "" THEN rest
                      ELSE [exc |-> "", values |-> <<PyList(row.values)>> \o rest.values]

\* the branch taken when the body has "headers" and "rows" (a list of str and a
\* list of lists in every body of the model)
ShapeTabular(response_data, tabulate_option, include_types) ==
    LET hdrs == Item(response_data, "headers")
        rows == Item(response_data, "rows")
        typed_headers ==
            IF Truthy(rows)
            THEN TypedHeaders(hdrs.items, rows.items[1].items, 1)
            ELSE [exc |-> "", values |-> hdrs.items]
        simplified_rows == SimplifiedRows(rows.items, 1)
    IN  IF include_types /\ typed_headers.exc # "" THEN Raise(typed_headers.exc)
        ELSE IF simplified_rows.exc # "" THEN Raise(simplified_rows.exc)
        ELSE IF tabulate_option
        THEN IF include_types
             THEN Tabulate(simplified_rows.values, typed_headers.values)
             ELSE Tabulate(simplified_rows.values, hdrs.items)
        ELSE IF include_types
             THEN ReturnText(json_dumps(response_data))
             ELSE ReturnText(json_dumps(
                      SetItem(response_data, "rows", PyList(simplified_rows.values))))

\* IsTabular with `or` in place of `and`
IsTabularEither(response_data) ==
    LET h == Contains(response_data, "headers")
    IN  IF h # "F" THEN h ELSE Contains(response_data, "rows")

\* `"headers" in response_data and "rows" in response_data`
IsTabular(response_data) ==
    LET h == Contains(response_data, "headers")
    IN  IF h # "T" THEN h ELSE Contains(response_data, "rows")

\* the `try:` block of _process_response: parse the body, shape it if tabular
ParseAndShape(response, tabulate_option, include_types) ==
    IF response.json = JSONDecodeError
    THEN ReturnText("Error: Response: " \o response.text \o " could not be decoded as JSON")
    ELSE LET response_data == response.json
             tabular == IsTabular(response_data)
         IN  IF tabular = "TypeError" THEN Raise("TypeError")
             ELSE IF tabular = "T"
             THEN IF SubscriptError(response_data, "headers") # ""
                  THEN Raise(SubscriptError(response_data, "headers"))
                  ELSE IF SubscriptError(response_data, "rows") # ""
                  THEN Raise(SubscriptError(response_data, "rows"))
                  ELSE ShapeTabular(response_data, tabulate_option, include_types)
             ELSE ReturnText(response.text)

\* _process_response without the test for an empty body
ProcessResponseNoEmptyTest(response, tabulate_option, include_types) ==
    ParseAndShape(response, tabulate_option, include_types)

_process_response(response, tabulate_option, include_types) ==
    IF response.text = "" THEN ReturnText("Error: Empty response from server")
    ELSE ParseAndShape(response, tabulate_option, include_types)

(***************************************************************************)
(* The operations: the payload each one builds, and its validation         *)
(***************************************************************************)
\* FormatColumns with the explicit is_primary of a column ignored
FormatColumnsIgnoringExplicit(columns, i, primary_seen) ==
    [j \in 1..(Len(columns) - i + 1) |->
        LET column == columns[j + i - 1]
        IN  PyDict(<<"name", "type", "default", "is_primary">>,
                   <<Item(column, "name"), Get(column, "type", PyStr("Any?")),
                     Get(column, "default", None),
                     PyBool(~primary_seen /\ j + i - 1 = 1)>>)]

RECURSIVE FormatColumns(_, _, _)
\* the `for i, column in enumerate(columns)` loop of create, from column i on
FormatColumns(columns, i, primary_seen) ==
    IF i > Len(columns) THEN <<>>
    ELSE LET column == columns[i]
             column_type == Get(column, "type", PyStr("Any?"))
             column_default == Get(column, "default", None)
             column_is_primary ==
                 IF ~HasKey(column, "is_primary")
                 THEN PyBool(~primary_seen /\ i = 1)
                 ELSE Item(column, "is_primary")
             seen == primary_seen \/ (~HasKey(column, "is_primary") /\ Truthy(column_is_primary))
         IN  <<PyDict(<<"name", "type", "default", "is_primary">>,
                      <<Item(column, "name"), column_type, column_default,
                        column_is_primary>>)>>
             \o FormatColumns(columns, i + 1, seen)

\* any("is_primary" in column and column["is_primary"] for column in columns)
PrimarySeen(columns) ==
    \E i \in DOMAIN columns :
        HasKey(columns[i], "is_primary") /\ Truthy(Item(columns[i], "is_primary"))

\* the payload create() posts
CreatePayload(relation_name, columns) ==
    PyDict(<<"query_type", "relation_name", "fields">>,
           <<PyStr("Create"), PyStr(relation_name),
             PyList(FormatColumns(columns, 1, PrimarySeen(columns)))>>)

\* ModifyValidation without its last test (nothing given at all)
ModifyValidationPairsOnly(kw) ==
    IF (kw.fields = None) # (kw.values = None) THEN "ValueError"
    ELSE IF (kw.text = None) # (kw.embeddings = None) THEN "ValueError"
    ELSE ""

\* the validation of modify_data: the ValueError it raises, or ""
ModifyValidation(kw) ==
    IF (kw.fields = None) # (kw.values = None) THEN "ValueError"
    ELSE IF (kw.text = None) # (kw.embeddings = None) THEN "ValueError"
    ELSE IF kw.fields = None /\ kw.text = None THEN "ValueError"
    ELSE ""

\* SetSearchable that always starts from a new inner dict
SetSearchableAfresh(payload, key, value) ==
    SetItem(payload, "searchable_content", SetItem(PyDict(<<>>, <<>>), key, value))

\* payload["searchable_content"][key] = value, creating the inner dict first
SetSearchable(payload, key, value) ==
    LET sc == IF HasKey(payload, "searchable_content")
              THEN Item(payload, "searchable_content")
              ELSE PyDict(<<>>, <<>>)
    IN  SetItem(payload, "searchable_content", SetItem(sc, key, value))

\* the payload modify_data() posts once validation passed
ModifyPayload(operation_type, relation_name, kw) ==
    LET p0 == PyDict(<<"query_type", "relation_name">>,
                     <<PyStr(operation_type), PyStr(relation_name)>>)
        p1 == IF kw.fields # None /\ kw.values # None
              THEN SetItem(SetItem(p0, "fields", kw.fields), "values", kw.values)
              ELSE p0
        p2 == IF kw.text # None /\ kw.embeddings # None
              THEN SetItem(p1, "searchable_content",
                           PyDict(<<"text", "embeddings">>, <<kw.text, kw.embeddings>>))
              ELSE p1
        p3 == IF kw.access_keys # None THEN SetItem(p2, "access_keys", kw.access_keys) ELSE p2
        p4 == IF kw.metadata # None THEN SetSearchable(p3, "metadata", kw.metadata) ELSE p3
        p5 == IF kw.references # None THEN SetSearchable(p4, "reference", kw.references) ELSE p4
    IN  p5

\* the payload lookup() posts (fields=None becomes [])
LookupPayload(relation_name, fields, condition) ==
    PyDict(<<"query_type", "relation_name", "fields", "condition">>,
           <<PyStr("Lookup"), PyStr(relation_name),
             IF fields = None THEN PyList(<<>>) ELSE fields, PyStr(condition)>>)

\* the payload join() posts
JoinPayload(args) ==
    LET ret == PyDict(<<"fields">>, <<Get(args, "return_fields", None)>>)
        option == Get(args, "option", None)
    IN  PyDict(<<"query_type", "join_type", "relations", "return">>,
               <<PyStr("Join"), Get(args, "join_type", None), Get(args, "relations", None),
                 IF option # None THEN SetItem(ret, "option", option) ELSE ret>>)

\* the payload delete() posts
DeletePayload(relation_name, args) ==
    PyDict(<<"query_type", "relation_name", "condition">>,
           <<PyStr("Delete"), PyStr(relation_name), Get(args, "condition", None)>>)

\* the payload edit_fields() posts
EditFieldsPayload(relation_name, args) ==
    LET fields == Get(args, "fields", None)
        access_keys == Get(args, "access_keys", None)
    IN  PyDict(<<"query_type", "relation_name", "fields", "add_columns", "condition",
                 "access_keys">>,
               <<PyStr("ColumnEditor"), PyStr(relation_name),
                 IF fields # None THEN fields ELSE PyList(<<>>),
                 Get(args, "add_columns", None),
                 Get(args, "condition", PyStr("")),
                 IF access_keys # None THEN access_keys ELSE PyList(<<>>)>>)

RECURSIVE SetGiven(_, _, _, _)
\* `if <name> is not None: query_payload[<name>] = <name>` for names[i..]
SetGiven(payload, args, names, i) ==
    IF i > Len(names) THEN payload
    ELSE SetGiven(IF Get(args, names[i], None) # None
                  THEN SetItem(payload, names[i], Item(args, names[i]))
                  ELSE payload,
                  args, names, i + 1)

\* the payload vector_search() posts
VectorSearchPayload(args) ==
    SetGiven(PyDict(<<"query_type", "query_vector">>,
                    <<PyStr("VectorSearch"), Get(args, "query_vector", None)>>),
             args,
             <<"access_keys", "search_radius", "number_of_results", "filter_statement">>,
             1)

\* the payload recursive_query() posts
RecursionPayload(relation_name, args) ==
    PyDict(<<"query_type", "relation", "source", "target">>,
           <<PyStr("Recursion"),
             PyDict(<<"relation_name", "fields", "condition", "defaults", "access_keys">>,
                    <<PyStr(relation_name), PyList(<<>>),
                      Get(args, "starting_condition", None), None, None>>),
             Get(args, "source_field", None), Get(args, "target_field", None)>>)

\* requests.post(self.base_url, headers=self.headers, json=payload)
Request(payload) == [url |-> base_url, headers |-> headers, json |-> payload]
NoRequest == [url |-> None, headers |-> None, json |-> None]

(***************************************************************************)
(* The inputs of the model: arguments of the calls and server responses    *)
(***************************************************************************)
SeqsUpTo(S, n) == UNION {[1..m -> S] : m \in 0..n}

Tag(key, payload) == PyDict(<<key>>, <<payload>>)
NumInt(i) == Tag("Num", Tag("Int", PyInt(i)))
NumFloat(t) == Tag("Num", Tag("Float", PyFloat(t)))

\* column specs: name by position, type / default / is_primary given or not
ColumnSpecs(i) ==
    LET name == PyDict(<<"name">>, <<PyStr("c" \o ToString(i))>>)
        withType == {name, SetItem(name, "type", PyStr("Int"))}
        withDefault == withType \cup {SetItem(c, "default", PyInt(0)) : c \in withType}
    IN  withDefault
        \cup {SetItem(c, "is_primary", True) : c \in withDefault}
        \cup {SetItem(c, "is_primary", False) : c \in withDefault}

RECURSIVE ColumnListsOfLen(_)
ColumnListsOfLen(n) ==
    IF n = 0 THEN {<<>>}
    ELSE {Append(cs, c) : cs \in ColumnListsOfLen(n - 1), c \in ColumnSpecs(n)}

ColumnLists == UNION {ColumnListsOfLen(n) : n \in 0..MaxColumns}

\* keyword arguments of insert / upsert / update: each given or left None
KwArgs ==
    [fields : {None, PyList(<<PyStr("id")>>)},
     values : {None, PyList(<<PyList(<<PyInt(1)>>)>>)},
     text : {None, PyStr("doc")},
     embeddings : {None, PyList(<<PyFloat(5)>>)},
     access_keys : {None, PyList(<<PyStr("k")>>)},
     metadata : {None, Tag("m", PyInt(1))},
     references : {None, PyStr("ref")}]

NoKw == [fields |-> None, values |-> None, text |-> None, embeddings |-> None,
         access_keys |-> None, metadata |-> None, references |-> None]

\* cells that are no dict
PlainCells ==
    {PyInt(42), PyStr("s"), True, None, PyFloat(15), PyList(<<PyInt(1)>>)}

\* payloads of a "Json" cell
JsonPayloads ==
    {PyInt(1), PyStr("j"), None, PyList(<<PyInt(1)>>), Tag("a", PyInt(1)), Tag("Str", PyStr("x"))}

\* one-key cells of the recognised shapes, list cells apart
TaggedCells ==
    {NumInt(5), NumFloat(25), Tag("Str", PyStr("x")), Tag("Bool", True),
     Tag("Uuid", PyStr("u-1"))}
    \cup {Tag("Json", j) : j \in JsonPayloads}

\* dicts that match no recognised shape
OddCells ==
    {PyDict(<<>>, <<>>), Tag("Foo", PyInt(1)), Tag("Num", Tag("X", PyInt(1))),
     Tag("Num", PyDict(<<>>, <<>>)), Tag("Num", PyStr("x")),
     Tag("Num", PyInt(5)), Tag("Num", None), Tag("Num", PyStr("Int")),
     Tag("Num", PyList(<<PyStr("Int")>>)),
     Tag("List", PyInt(5)), Tag("List", None), Tag("List", PyStr("ab")),
     Tag("List", Tag("k", PyInt(1))),
     PyDict(<<"Foo", "Str">>, <<PyInt(1), PyStr("x")>>),
     PyDict(<<"Num", "Bool">>, <<Tag("X", PyInt(1)), True>>),
     PyDict(<<"Num", "Str">>, <<Tag("Int", PyInt(3)), PyStr("x")>>)}

\* elements of the "List" cells
ListElems == {NumInt(1), Tag("Str", PyStr("a")), PyInt(7), Tag("Foo", PyInt(1)), Tag("Num", PyInt(5))}

RECURSIVE ListPayloads(_)
\* element lists of "List" cells, nested d times
ListPayloads(d) ==
    IF d = 0 THEN SeqsUpTo(ListElems, MaxListLen)
    ELSE LET inner == ListPayloads(d - 1)
         IN  inner \cup {<<Tag("List", PyList(l))>> : l \in inner}
                   \cup {<<Tag("Str", PyStr("a")), Tag("List", PyList(l))>> : l \in inner}

ListCells == {Tag("List", PyList(l)) : l \in ListPayloads(MaxDepth)}

Cells == PlainCells \cup TaggedCells \cup OddCells \cup ListCells

\* a tabular body, in the three layouts the model tries
Table(hdrs, rows) == PyDict(<<"headers", "rows">>, <<PyList(hdrs), PyList(rows)>>)
TableRowsFirst(hdrs, rows) == PyDict(<<"rows", "headers">>, <<PyList(rows), PyList(hdrs)>>)
TableWithExtra(hdrs, rows) ==
    PyDict(<<"took", "headers", "rows", "next">>,
           <<PyInt(3), PyList(hdrs), PyList(rows), None>>)

\* one-cell tables over every cell of the model
CellBodies ==
    UNION {{Table(<<PyStr("c")>>, <<PyList(<<c>>)>>),
            TableRowsFirst(<<PyStr("c")>>, <<PyList(<<c>>)>>),
            TableWithExtra(<<PyStr("c")>>, <<PyList(<<c>>)>>)} : c \in Cells}

\* grids: up to MaxRows rows of up to MaxCols cells, up to MaxCols headers
GridCells == {NumInt(5), Tag("Str", PyStr("x"))}
GridHeaders == {[i \in 1..m |-> PyStr("h" \o ToString(i))] : m \in 0..MaxCols}
GridRows == {PyList(r) : r \in SeqsUpTo(GridCells, MaxCols)}
GridBodies == {Table(h, rs) : h \in GridHeaders, rs \in SeqsUpTo(GridRows, MaxRows)}

\* JSON bodies that are no table
OtherBodies ==
    {Tag("status", PyStr("ok")), PyDict(<<>>, <<>>),
     Tag("headers", PyList(<<PyStr("c")>>)),
     Tag("rows", PyList(<<PyList(<<NumInt(5)>>)>>)),
     PyInt(5), PyFloat(15), True, None, PyStr("ok"), PyStr("headers and rows"),
     PyList(<<PyInt(1)>>), PyList(<<PyStr("headers"), PyStr("rows")>>)}

JsonResponses(bodies) == {Response(WireText(b), b) : b \in bodies}

\* bodies that are no JSON, the empty body among them
BadResponses ==
    {Response(t, JSONDecodeError) : t \in {"", " ", "<html>", "{\"headers\":"}}

QueryResponses == JsonResponses(CellBodies \cup GridBodies \cup OtherBodies) \cup BadResponses

AckResponses == {Response("", JSONDecodeError), Response(WireText(Tag("status", PyStr("ok"))), Tag("status", PyStr("ok")))}

\* a call: the operation, its arguments (columns for create, kw for insert /
\* upsert / update, args for the others), its flags, and the response the
\* server gives to its POST
Call(op, columns, kw, response, tabulate_option, include_types) ==
    [op |-> op, relation_name |-> "rel", columns |-> columns, kw |-> kw,
     args |-> PyDict(<<>>, <<>>),
     response |-> response, tabulate_option |-> tabulate_option,
     include_types |-> include_types]

CallWith(op, args, response, tabulate_option, include_types) ==
    [Call(op, <<>>, NoKw, response, tabulate_option, include_types) EXCEPT !.args = args]

CreateCalls ==
    {Call("create", cols, NoKw, r, FALSE, FALSE) : cols \in ColumnLists, r \in AckResponses}
ModifyCalls ==
    {Call(op, <<>>, kw, r, FALSE, FALSE) :
        op \in {"insert", "upsert", "update"}, kw \in KwArgs, r \in AckResponses}
LookupCalls ==
    {Call("lookup", <<>>, NoKw, r, t, i) :
        r \in QueryResponses, t \in BOOLEAN, i \in BOOLEAN}

\* a few responses of each kind, for the operations other than lookup
SomeResponses ==
    BadResponses
    \cup JsonResponses({Tag("status", PyStr("ok")), PyInt(5),
                        Table(<<PyStr("c")>>, <<PyList(<<NumInt(5)>>)>>),
                        Table(<<>>, <<PyList(<<Tag("Num", PyInt(5))>>)>>)})

JoinArgs ==
    LET base == PyDict(<<"join_type", "relations", "return_fields">>,
                       <<PyStr("Inner"),
                         PyList(<<PyDict(<<"relation_name", "fields">>,
                                         <<PyStr("rel"), PyList(<<PyStr("id")>>)>>)>>),
                         PyList(<<PyStr("id")>>)>>)
    IN  {base, SetItem(base, "option", PyStr(":limit 1"))}

DeleteArgs == {Tag("condition", PyStr("id = 1"))}

EditFieldsArgs ==
    {PyDict(<<>>, <<>>),
     PyDict(<<"fields", "add_columns", "condition", "access_keys">>,
            <<PyList(<<PyStr("id")>>), PyList(<<PyStr("age")>>), PyStr("id = 1"),
              PyList(<<PyStr("k")>>)>>)}

VectorSearchArgs ==
    LET base == Tag("query_vector", PyList(<<PyFloat(5)>>))
    IN  {base, SetItem(base, "number_of_results", PyInt(3)),
         SetItem(SetItem(base, "access_keys", PyList(<<PyStr("k")>>)),
                 "filter_statement", PyStr("id = 1")),
         SetItem(base, "search_radius", PyFloat(5))}

RecursionArgs ==
    {PyDict(<<"source_field", "target_field", "starting_condition">>,
            <<PyStr("sourceId"), PyStr("targetId"), PyStr("sourceId = 1")>>)}

JoinCalls ==
    {CallWith("join", a, r, t, i) :
        a \in JoinArgs, r \in SomeResponses, t \in BOOLEAN, i \in BOOLEAN}
DeleteCalls == {CallWith("delete", a, r, FALSE, FALSE) : a \in DeleteArgs, r \in SomeResponses}
EditFieldsCalls ==
    {CallWith("edit_fields", a, r, FALSE, FALSE) : a \in EditFieldsArgs, r \in SomeResponses}
VectorSearchCalls ==
    {CallWith("vector_search", a, r, t, i) :
        a \in VectorSearchArgs, r \in SomeResponses, t \in BOOLEAN, i \in BOOLEAN}
RecursionCalls ==
    {CallWith("recursive_query", a, r, t, i) :
        a \in RecursionArgs, r \in SomeResponses, t \in BOOLEAN, i \in BOOLEAN}

Calls ==
    CreateCalls \cup ModifyCalls \cup LookupCalls \cup JoinCalls \cup DeleteCalls
    \cup EditFieldsCalls \cup VectorSearchCalls \cup RecursionCalls

(***************************************************************************)
(* The state machine: a client, the call made on it, and its outcome       *)
(***************************************************************************)
DefaultBaseUrl == "https://api.nexusdb.io/query"

\* os.environ: a variable that is not set is None here
Environ(BASE_URL, NEXUSDB_API_KEY) ==
    [BASE_URL |-> BASE_URL, NEXUSDB_API_KEY |-> NEXUSDB_API_KEY]

\* the arguments of NexusDB(...): api_key (None by default) and the keyword
\* arguments that are no parameter of __init__
InitArgs(key, other_kwargs) == [api_key |-> key, other_kwargs |-> other_kwargs]

\* os.environ.get(name, dflt)
EnvironGet(env_value, dflt) == IF env_value = None THEN dflt ELSE env_value

\* the three assignments of __init__
InitBaseUrl(env) == EnvironGet(env.BASE_URL, PyStr(DefaultBaseUrl))
InitApiKey(args, env) ==
    IF args.api_key # None THEN args.api_key ELSE EnvironGet(env.NEXUSDB_API_KEY, None)
InitHeaders(key) ==
    PyDict(<<"Content-Type", "API-Key">>, <<PyStr("application/json"), key>>)

\* the client NexusDB(**args) leaves behind under environment env
Constructed(args, env) ==
    /\ environ = env
    /\ init_args = args
    /\ base_url = InitBaseUrl(env)
    /\ api_key = InitApiKey(args, env)
    /\ headers = InitHeaders(InitApiKey(args, env))

\* NexusDB(api_key="key-1") with BASE_URL unset, and the call about to be made
Init ==
    /\ Constructed(InitArgs(PyStr("key-1"), PyDict(<<>>, <<>>)), Environ(None, None))
    /\ posts = 0
    /\ last_request = NoRequest
    /\ call \in Calls
    /\ outcome = NoOutcome

Pending(op) == call.op = op /\ outcome = NoOutcome

\* Post with a second request sent when the response body is empty
PostWithRetry(payload) ==
    /\ posts' = posts + (IF call.response.text = "" THEN 2 ELSE 1)
    /\ last_request' = Request(payload)

\* requests.post: the request goes out and the server's response comes back
Post(payload) ==
    /\ posts' = posts + 1
    /\ last_request' = Request(payload)

Create ==
    /\ Pending("create")
    /\ Post(CreatePayload(call.relation_name, call.columns))
    /\ outcome' = ReturnText(call.response.text)
    /\ UNCHANGED <<client, call>>

modify_data(operation_type) ==
    /\ IF ModifyValidation(call.kw) # ""
       THEN /\ outcome' = Raise(ModifyValidation(call.kw))
            /\ UNCHANGED <<posts, last_request>>
       ELSE /\ Post(ModifyPayload(operation_type, call.relation_name, call.kw))
            /\ outcome' = ReturnText(call.response.text)
    /\ UNCHANGED <<client, call>>

Insert == Pending("insert") /\ modify_data("Insert")

Upsert == Pending("upsert") /\ modify_data("Upsert")

Update == Pending("update") /\ modify_data("Update")

Lookup ==
    /\ Pending("lookup")
    /\ Post(LookupPayload(call.relation_name, None, ""))
    /\ outcome' = _process_response(call.response, call.tabulate_option, call.include_types)
    /\ UNCHANGED <<client, call>>

Join ==
    /\ Pending("join")
    /\ Post(JoinPayload(call.args))
    /\ outcome' = _process_response(call.response, call.tabulate_option, call.include_types)
    /\ UNCHANGED <<client, call>>

Delete ==
    /\ Pending("delete")
    /\ Post(DeletePayload(call.relation_name, call.args))
    /\ outcome' = ReturnText(call.response.text)
    /\ UNCHANGED <<client, call>>

EditFields ==
    /\ Pending("edit_fields")
    /\ Post(EditFieldsPayload(call.relation_name, call.args))
    /\ outcome' = ReturnText(call.response.text)
    /\ UNCHANGED <<client, call>>

VectorSearch ==
    /\ Pending("vector_search")
    /\ Post(VectorSearchPayload(call.args))
    /\ outcome' = _process_response(call.response, call.tabulate_option, call.include_types)
    /\ UNCHANGED <<client, call>>

RecursiveQuery ==
    /\ Pending("recursive_query")
    /\ Post(RecursionPayload(call.relation_name, call.args))
    /\ outcome' = _process_response(call.response, call.tabulate_option, call.include_types)
    /\ UNCHANGED <<client, call>>

Next ==
    \/ Create \/ Insert \/ Upsert \/ Update \/ Lookup
    \/ Join \/ Delete \/ EditFields \/ VectorSearch \/ RecursiveQuery

Spec == Init /\ [][Next]_vars

(***************************************************************************)
(* A session: calls made one after the other on one client                 *)
(***************************************************************************)
NoCall == Call("none", <<>>, NoKw, Response("", JSONDecodeError), FALSE, FALSE)

\* the calls of a session: every operation, with responses of every kind
SessionResponses ==
    {Response("", JSONDecodeError), Response("<html>", JSONDecodeError)}
    \cup JsonResponses({Tag("status", PyStr("ok")),
                        Table(<<PyStr("c")>>, <<PyList(<<NumInt(5)>>)>>)})

SessionCalls ==
    {Call("create", <<Tag("name", PyStr("c1"))>>, NoKw, r, FALSE, FALSE) : r \in AckResponses}
    \cup {Call(op, <<>>, kw, Response("", JSONDecodeError), FALSE, FALSE) :
              op \in {"insert", "upsert", "update"},
              kw \in {[NoKw EXCEPT !.fields = PyList(<<PyStr("id")>>),
                                   !.values = PyList(<<PyList(<<PyInt(1)>>)>>)],
                      [NoKw EXCEPT !.fields = PyList(<<PyStr("id")>>)]}}
    \cup {Call("lookup", <<>>, NoKw, r, t, t) : r \in SessionResponses, t \in BOOLEAN}
    \cup {CallWith("join", a, r, FALSE, FALSE) : a \in JoinArgs, r \in AckResponses}
    \cup {CallWith("delete", a, r, FALSE, FALSE) : a \in DeleteArgs, r \in AckResponses}
    \cup {CallWith("edit_fields", a, r, FALSE, FALSE) : a \in EditFieldsArgs, r \in AckResponses}
    \cup {CallWith("vector_search", a, r, TRUE, FALSE) :
              a \in {Tag("query_vector", PyList(<<PyFloat(5)>>))}, r \in SessionResponses}
    \cup {CallWith("recursive_query", a, r, FALSE, TRUE) :
              a \in RecursionArgs, r \in SessionResponses}

\* the clients of a session: the key given to the constructor, or taken from
\* the environment together with BASE_URL
SessionInit ==
    /\ \/ Constructed(InitArgs(PyStr("key-1"), PyDict(<<>>, <<>>)), Environ(None, None))
       \/ Constructed(InitArgs(None, PyDict(<<>>, <<>>)),
                      Environ(PyStr("http://localhost:8080/query"), PyStr("env-key")))
    /\ posts = 0
    /\ last_request = NoRequest
    /\ call = NoCall
    /\ outcome = NoOutcome

\* the caller makes the next call, once the previous one has come back
BeginCall ==
    /\ call = NoCall \/ outcome # NoOutcome
    /\ posts < MaxPosts
    /\ call' \in SessionCalls
    /\ outcome' = NoOutcome
    /\ UNCHANGED <<client, posts, last_request>>

SessionNext == BeginCall \/ Next

SpecSession == SessionInit /\ [][SessionNext]_vars

(***************************************************************************)
(* Construction: NexusDB(...) under an environment                         *)
(***************************************************************************)
ReturnNone == [exc |-> "", form |-> "None", text |-> "", table_headers |-> <<>>, table_rows |-> <<>>]

\* what BASE_URL and NEXUSDB_API_KEY may hold: unset (None), set, set and empty
Environs ==
    {Environ(u, k) : u \in {None, PyStr("http://localhost:8080/query"), PyStr("")},
                     k \in {None, PyStr("env-key"), PyStr("")}}

\* NexusDB(), NexusDB(api_key=...), and a base URL handed to the constructor
ConstructorArgs ==
    {InitArgs(k, o) : k \in {None, PyStr("key-1"), PyStr("env-key"), PyStr("")},
                      o \in {PyDict(<<>>, <<>>),
                             Tag("base_url", PyStr("http://override:9090/query")),
                             Tag("base_url", PyStr(DefaultBaseUrl))}}

ConfigInit ==
    /\ environ \in Environs
    /\ init_args \in ConstructorArgs
    /\ base_url = None /\ api_key = None /\ headers = None
    /\ posts = 0
    /\ last_request = NoRequest
    /\ call = Call("__init__", <<>>, NoKw, Response("", JSONDecodeError), FALSE, FALSE)
    /\ outcome = NoOutcome

\* NexusDB.__init__(self, api_key=None): any other keyword is a TypeError of
\* the call itself, and no object comes into being
Construct ==
    /\ Pending("__init__")
    /\ IF init_args.other_kwargs # PyDict(<<>>, <<>>)
       THEN /\ outcome' = Raise("TypeError")
            /\ UNCHANGED <<base_url, api_key, headers>>
       ELSE /\ base_url' = InitBaseUrl(environ)
            /\ api_key' = InitApiKey(init_args, environ)
            /\ headers' = InitHeaders(InitApiKey(init_args, environ))
            /\ outcome' = ReturnNone
    /\ UNCHANGED <<environ, init_args, posts, last_request, call>>

ConfigNext == Construct

SpecConfig == ConfigInit /\ [][ConfigNext]_vars

(***************************************************************************)
(* What the specification says of the decoder (sections 4.1 and 8), as a   *)
(* total function: the yardstick of the claims about decoding              *)
(***************************************************************************)
RecognisedAt(cell, i) ==
    LET key == cell.keys[i]
        value == cell.items[i]
    IN  \/ key \in {"Str", "Bool", "Uuid", "Json"}
        \/ key = "Num" /\ value.k = "dict" /\ (HasKey(value, "Int") \/ HasKey(value, "Float"))
        \/ key = "List" /\ value.k = "list"

Recognised(cell) == cell.k = "dict" /\ \E i \in DOMAIN cell.keys : RecognisedAt(cell, i)

FirstRecognised(cell) ==
    CHOOSE i \in DOMAIN cell.keys :
        RecognisedAt(cell, i) /\ \A j \in 1..(i - 1) : ~RecognisedAt(cell, j)

RECURSIVE SpecValue(_)
SpecValue(cell) ==
    IF ~Recognised(cell) THEN (IF cell.k = "dict" THEN PyStr(Str(cell)) ELSE cell)
    ELSE LET i == FirstRecognised(cell)
             key == cell.keys[i]
             value == cell.items[i]
         IN  CASE key = "Num" ->
                    IF HasKey(value, "Int") THEN Item(value, "Int") ELSE Item(value, "Float")
               [] key = "List" -> PyList([j \in DOMAIN value.items |-> SpecValue(value.items[j])])
               [] OTHER -> value

SpecLabel(cell) ==
    IF ~Recognised(cell) THEN "Unknown"
    ELSE LET i == FirstRecognised(cell)
         IN  IF cell.keys[i] = "Num"
             THEN (IF HasKey(cell.items[i], "Int") THEN "Int" ELSE "Float")
             ELSE cell.keys[i]

\* the shapes the claim about the decoder lists: a cell that is no object, or a
\* one-key object under a recognised tag
ListedShape(cell) ==
    cell.k # "dict" \/ (Len(cell.keys) = 1 /\ RecognisedAt(cell, 1))

\* an object that still looks like a tagged cell
LooksTagged(v) ==
    v.k = "dict" /\ Len(v.keys) = 1
    /\ v.keys[1] \in {"Num", "Str", "Bool", "Uuid", "Json", "List"}

(***************************************************************************)
(* Vocabulary of the claims                                                *)
(***************************************************************************)
Done(op) == call.op = op /\ outcome # NoOutcome

Body == call.response.json

TabularBody == Body.k = "dict" /\ HasKey(Body, "headers") /\ HasKey(Body, "rows")

BodyHeaders == Item(Body, "headers").items

BodyRows == Item(Body, "rows").items

\* a table of one header "c" and one row of one cell: the decoder's result for
\* that cell shows in the outcome of lookup(tabulate=True, include_types=True)
OneCellTable ==
    /\ Done("lookup") /\ call.tabulate_option /\ call.include_types
    /\ call.response.json # JSONDecodeError /\ TabularBody
    /\ BodyHeaders = <<PyStr("c")>>
    /\ Len(BodyRows) = 1 /\ Len(BodyRows[1].items) = 1

TheCell == BodyRows[1].items[1]

\* the outcome that shows the decoder returned (value, label) for TheCell
ShowsDecoded(value, label) ==
    outcome = Tabulate(<<PyList(<<value>>)>>, <<PyStr("c (" \o label \o ")")>>)

\* the columns handed to create and the fields it posted
PostedFields == Item(last_request.json, "fields").items

ExplicitPrimary(column) == HasKey(column, "is_primary") /\ Item(column, "is_primary") = True

(***************************************************************************)
(* C1: create() with a non-empty column list in which no spec is marked    *)
(* primary (is_primary absent, or present and false) posts fields in which *)
(* exactly the first is primary: fields[0].is_primary is true and every    *)
(* other is false.                                                         *)
(* Violated: an explicit is_primary = false on the first column is kept,   *)
(* so no column is primary.                                                *)
(***************************************************************************)
C1_FirstColumnPrimaryWhenNoneMarked ==
    (Done("create") /\ call.columns # <<>>
        /\ \A i \in DOMAIN call.columns : ~ExplicitPrimary(call.columns[i]))
    => /\ Item(PostedFields[1], "is_primary") = True
       /\ \A i \in 2..Len(PostedFields) : Item(PostedFields[i], "is_primary") = False

\* the part of C1 the code keeps: when the first column leaves is_primary out
C1_Lemma_FirstColumnPrimaryWhenKeyAbsent ==
    (Done("create") /\ call.columns # <<>>
        /\ \A i \in DOMAIN call.columns : ~ExplicitPrimary(call.columns[i])
        /\ ~HasKey(call.columns[1], "is_primary"))
    => /\ Item(PostedFields[1], "is_primary") = True
       /\ \A i \in 2..Len(PostedFields) : Item(PostedFields[i], "is_primary") = False

C3_DecoderOnListedShapes ==
    (OneCellTable /\ ListedShape(TheCell))
    => ShowsDecoded(SpecValue(TheCell), SpecLabel(TheCell))

\* the part of C3 the code keeps: whenever the decoder returns at all on a
\* listed shape, it returns what the claim says
C3_Lemma_ListedShapesWhenNoError ==
    (OneCellTable /\ ListedShape(TheCell) /\ outcome.exc = "")
    => ShowsDecoded(SpecValue(TheCell), SpecLabel(TheCell))

(***************************************************************************)
(* C4: the decoder is total: on every cell it raises nothing and returns a *)
(* pair, and a cell that is an object of no recognised shape decodes to    *)
(* (str(cell), "Unknown").                                                 *)
(* Violated: {"Num": 5} raises TypeError (`"Int" in 5`).                   *)
(***************************************************************************)
C4_DecoderTotal ==
    OneCellTable =>
        /\ outcome.exc = ""
        /\ (TheCell.k = "dict" /\ ~Recognised(TheCell))
              => ShowsDecoded(PyStr(Str(TheCell)), "Unknown")

(***************************************************************************)
(* C5: for every value of the two flags, an empty body is answered with    *)
(* the string "Error: Empty response from server", and a non-empty body    *)
(* that is no JSON with "Error: Response: <raw text> could not be decoded  *)
(* as JSON"; both are returned, nothing is raised.                         *)
(***************************************************************************)
C5_EmptyAndUndecodableBodies ==
    Done("lookup") =>
        /\ call.response.text = ""
              => outcome = ReturnText("Error: Empty response from server")
        /\ (call.response.text # "" /\ call.response.json = JSONDecodeError)
              => outcome = ReturnText("Error: Response: " \o call.response.text
                                      \o " could not be decoded as JSON")

\* lookup(tabulate=True, include_types=True) got an empty body
C5_Witness ==
    /\ Done("lookup") /\ call.tabulate_option /\ call.include_types
    /\ call.response.text = ""
    /\ outcome.form = "text" /\ outcome.text = "Error: Empty response from server"

(***************************************************************************)
(* C6 as claimed: a JSON object body is passed through (the raw text is    *)
(* returned) exactly when it lacks both headers and rows; with at least    *)
(* one of them it is shaped.                                               *)
(* Violated: a body with headers and no rows is passed through.            *)
(***************************************************************************)
C6_PassThroughIffBothMissing ==
    (Done("lookup") /\ call.response.json # JSONDecodeError /\ Body.k = "dict")
    => (outcome = ReturnText(call.response.text)
           <=> (~HasKey(Body, "headers") /\ ~HasKey(Body, "rows")))

(***************************************************************************)
(* C6 as amended: a JSON object body is passed through (the raw text is    *)
(* returned unchanged) exactly when it lacks headers or lacks rows; a body *)
(* with both is never passed through: it goes to the shaping branch, whose *)
(* result is a table, a re-serialised document, or the error raised while  *)
(* its cells are decoded.                                                  *)
(***************************************************************************)
C6_PassThroughIffEitherMissing ==
    (Done("lookup") /\ call.response.json # JSONDecodeError /\ Body.k = "dict")
    => /\ outcome = ReturnText(call.response.text)
             <=> (~HasKey(Body, "headers") \/ ~HasKey(Body, "rows"))
       /\ TabularBody =>
             \/ outcome.exc \in {"TypeError", "IndexError"}
             \/ outcome.form = "table" /\ call.tabulate_option
             \/ /\ outcome.form = "text" /\ ~call.tabulate_option
                /\ outcome.text # call.response.text

\* a body with headers and no rows came back as the raw text
C6_Witness ==
    /\ Done("lookup") /\ call.response.json # JSONDecodeError /\ Body.k = "dict"
    /\ HasKey(Body, "headers") /\ ~HasKey(Body, "rows")
    /\ outcome = ReturnText(call.response.text)

(***************************************************************************)
(* C7: lookup(tabulate=False, include_types=True) on a body with headers   *)
(* and rows, whatever the rows' lengths and cells, returns the JSON text   *)
(* of the parsed body unchanged (rows still tagged, other fields equal).   *)
(* Violated: a first row longer than headers raises IndexError, and a cell *)
(* the decoder raises on (C4) raises TypeError, before anything is         *)
(* serialised.                                                             *)
(***************************************************************************)
C7_TypesKeptBodyUnchanged ==
    (Done("lookup") /\ ~call.tabulate_option /\ call.include_types
        /\ call.response.json # JSONDecodeError /\ TabularBody)
    => outcome = ReturnText(json_dumps(Body))

\* the part of C7 the code keeps: whenever it returns, it returns the body
C7_Lemma_BodyUnchangedWhenNoError ==
    (Done("lookup") /\ ~call.tabulate_option /\ call.include_types
        /\ call.response.json # JSONDecodeError /\ TabularBody /\ outcome.exc = "")
    => outcome = ReturnText(json_dumps(Body))

(***************************************************************************)
(* C8: lookup(tabulate=False, include_types=False) on a body with headers  *)
(* and rows returns a JSON document whose rows[r][c] is the value of       *)
(* decoding the original rows[r][c], in which no cell is a tagged object   *)
(* any more, and whose other top-level fields are those of the body.       *)
(* Violated: a cell the decoder raises on (C4) raises TypeError; and a     *)
(* "Json" cell whose payload is itself {"Str": "x"} leaves a tagged object.*)
(***************************************************************************)
C8_RowsDecodedNoTagsLeft ==
    (Done("lookup") /\ ~call.tabulate_option /\ ~call.include_types
        /\ call.response.json # JSONDecodeError /\ TabularBody)
    => LET values == [r \in DOMAIN BodyRows |->
                         PyList([c \in DOMAIN BodyRows[r].items |->
                                    SpecValue(BodyRows[r].items[c])])]
       IN  /\ outcome = ReturnText(json_dumps(SetItem(Body, "rows", PyList(values))))
           /\ \A r \in DOMAIN values : \A c \in DOMAIN values[r].items :
                 ~LooksTagged(values[r].items[c])

(***************************************************************************)
(* C9: lookup(tabulate=True, include_types=True): with rows non-empty, one *)
(* header is rendered per header of the body, header i as                  *)
(* "<headers[i]> (<label>)" with the label of decoding rows[0][i]; with no *)
(* rows the headers are used as they are.                                  *)
(* Violated: the headers are built per cell of the first row, so a shorter *)
(* first row drops headers and a longer one raises IndexError.             *)
(***************************************************************************)
C9_TypedHeadersPerHeader ==
    (Done("lookup") /\ call.tabulate_option /\ call.include_types
        /\ call.response.json # JSONDecodeError /\ TabularBody)
    => /\ outcome.form = "table"
       /\ Len(outcome.table_headers) = Len(BodyHeaders)
       /\ BodyRows = <<>> => outcome.table_headers = BodyHeaders
       /\ BodyRows # <<>> =>
             \A i \in DOMAIN BodyHeaders :
                 /\ i \in DOMAIN BodyRows[1].items
                 /\ outcome.table_headers[i] =
                       PyStr(BodyHeaders[i].s \o " ("
                             \o SpecLabel(BodyRows[1].items[i]) \o ")")

\* the part of C9 the code keeps: when the first row has one cell per header
\* and the code returns
C9_Lemma_TypedHeadersWhenRowFits ==
    (Done("lookup") /\ call.tabulate_option /\ call.include_types
        /\ call.response.json # JSONDecodeError /\ TabularBody /\ outcome.exc = ""
        /\ BodyRows # <<>> /\ Len(BodyRows[1].items) = Len(BodyHeaders)
        /\ \A i \in DOMAIN BodyHeaders : ListedShape(BodyRows[1].items[i]))
    => /\ outcome.form = "table"
       /\ outcome.table_headers =
             [i \in DOMAIN BodyHeaders |->
                 PyStr(BodyHeaders[i].s \o " (" \o SpecLabel(BodyRows[1].items[i]) \o ")")]

(***************************************************************************)
(* C10: insert / upsert / update: when exactly one of fields / values is   *)
(* given, or exactly one of text / embeddings, or none of the four, the    *)
(* call raises ValueError and has issued no POST; in every other case it   *)
(* raises no validation error (and posts once).                            *)
(***************************************************************************)
Given(x) == x # None

BadModifyArguments(kw) ==
    \/ Given(kw.fields) # Given(kw.values)
    \/ Given(kw.text) # Given(kw.embeddings)
    \/ ~Given(kw.fields) /\ ~Given(kw.values) /\ ~Given(kw.text) /\ ~Given(kw.embeddings)

C10_ValidationBeforePost ==
    (Done("insert") \/ Done("upsert") \/ Done("update"))
    => IF BadModifyArguments(call.kw)
       THEN outcome = Raise("ValueError") /\ posts = 0 /\ last_request = NoRequest
       ELSE outcome.exc = "" /\ posts = 1

\* upsert(fields=...) without values raised ValueError before any POST
C10_Witness ==
    /\ Done("upsert") /\ Given(call.kw.fields) /\ ~Given(call.kw.values)
    /\ Given(call.kw.text) /\ Given(call.kw.embeddings)
    /\ outcome.exc = "ValueError" /\ posts = 0

(***************************************************************************)
(* C11: in any sequence of calls on one client, a call that passes         *)
(* argument validation issues exactly one POST, whatever the response body *)
(* is, and nothing is posted outside such a call (no second request, no    *)
(* retry); every POST goes to base_url with the headers                    *)
(* {Content-Type: application/json, API-Key: key} built at construction;   *)
(* and base_url, api_key and headers are the same after every step.        *)
(***************************************************************************)
CallReturns == outcome = NoOutcome /\ outcome' # NoOutcome

FailsValidation ==
    call.op \in {"insert", "upsert", "update"} /\ BadModifyArguments(call.kw)

C11_OnePostPerCallStaticConfig ==
    [][/\ <<base_url, api_key, headers>>' = <<base_url, api_key, headers>>
       /\ base_url = InitBaseUrl(environ)
       /\ headers = PyDict(<<"Content-Type", "API-Key">>,
                           <<PyStr("application/json"), InitApiKey(init_args, environ)>>)
       /\ IF CallReturns /\ ~FailsValidation
          THEN /\ posts' = posts + 1
               /\ last_request'.url = base_url
               /\ last_request'.headers = headers
               /\ Item(last_request'.json, "query_type").k = "str"
          ELSE /\ posts' = posts
               /\ last_request' = last_request]_vars

\* two calls have returned, the second a lookup answered with an empty body,
\* and two POSTs have been issued
C11_Witness ==
    /\ posts = 2 /\ Done("lookup") /\ call.response.text = ""
    /\ last_request.url = base_url /\ last_request.headers = headers
    /\ api_key = PyStr("env-key")

(***************************************************************************)
(* C12: both the base URL and the API key can be overridden at             *)
(* construction: the constructor returns a client whose api_key is the     *)
(* value supplied to the constructor, else the environment's               *)
(* NEXUSDB_API_KEY, and whose base_url is the value supplied to the        *)
(* constructor, else the environment's BASE_URL, else the built-in default.*)
(* Violated: the constructor takes no base URL; handing it one raises      *)
(* TypeError and no client is built.                                       *)
(***************************************************************************)
SuppliedBaseUrl == HasKey(init_args.other_kwargs, "base_url")

C12_ConstructorOverridesBoth ==
    Done("__init__")
    => /\ outcome.exc = ""
       /\ api_key = IF Given(init_args.api_key) THEN init_args.api_key
                    ELSE environ.NEXUSDB_API_KEY
       /\ base_url = IF SuppliedBaseUrl THEN Item(init_args.other_kwargs, "base_url")
                     ELSE IF Given(environ.BASE_URL) THEN environ.BASE_URL
                     ELSE PyStr(DefaultBaseUrl)

\* what does hold: the API key is overridable, the base URL comes from the
\* environment or the default whenever a client is built
C12_Lemma_ApiKeyOverridable ==
    Done("__init__") /\ ~SuppliedBaseUrl
    => /\ outcome = ReturnNone
       /\ api_key = IF Given(init_args.api_key) THEN init_args.api_key
                    ELSE environ.NEXUSDB_API_KEY
       /\ base_url = IF Given(environ.BASE_URL) THEN environ.BASE_URL
                     ELSE PyStr(DefaultBaseUrl)
       /\ headers = PyDict(<<"Content-Type", "API-Key">>,
                           <<PyStr("application/json"), api_key>>)

(***************************************************************************)
(* C13: for every argument combination modify_data accepts, the posted     *)
(* payload has query_type and relation_name, has fields and values         *)
(* together or neither, has access_keys only when given, and whenever it   *)
(* has searchable_content that object has both text and embeddings.        *)
(* Violated: metadata or references given without text/embeddings are      *)
(* posted in a searchable_content that holds only them.                    *)
(***************************************************************************)
ModifyPosted ==
    /\ Done("insert") \/ Done("upsert") \/ Done("update")
    /\ ~BadModifyArguments(call.kw)

Payload == last_request.json

SearchableContent == Item(Payload, "searchable_content")

OperationType ==
    CASE call.op = "insert" -> "Insert"
      [] call.op = "upsert" -> "Upsert"
      [] call.op = "update" -> "Update"

C13_SearchableContentHasTextAndEmbeddings ==
    ModifyPosted
    => /\ HasKey(Payload, "query_type") /\ HasKey(Payload, "relation_name")
       /\ HasKey(Payload, "fields") <=> HasKey(Payload, "values")
       /\ HasKey(Payload, "access_keys") => Given(call.kw.access_keys)
       /\ HasKey(Payload, "searchable_content")
          => HasKey(SearchableContent, "text") /\ HasKey(SearchableContent, "embeddings")

(***************************************************************************)
(* C13 (amended): the payload has query_type and relation_name; fields and *)
(* values exactly when given; access_keys exactly when given;              *)
(* searchable_content exactly when text/embeddings, metadata or references *)
(* are given, holding text and embeddings exactly when they are given,     *)
(* metadata exactly when given, reference exactly when references are      *)
(* given, and nothing else.                                                *)
(***************************************************************************)
HoldsWhenGiven(dict, key, arg) ==
    IF Given(arg) THEN HasKey(dict, key) /\ Item(dict, key) = arg
    ELSE ~HasKey(dict, key)

C13_SearchableContentHoldsWhatIsGiven ==
    ModifyPosted
    => /\ HasKey(Payload, "query_type")
       /\ Item(Payload, "query_type") = PyStr(OperationType)
       /\ HasKey(Payload, "relation_name")
       /\ Item(Payload, "relation_name") = PyStr(call.relation_name)
       /\ HoldsWhenGiven(Payload, "fields", call.kw.fields)
       /\ HoldsWhenGiven(Payload, "values", call.kw.values)
       /\ HoldsWhenGiven(Payload, "access_keys", call.kw.access_keys)
       /\ HasKey(Payload, "searchable_content")
          <=> (Given(call.kw.text) \/ Given(call.kw.metadata) \/ Given(call.kw.references))
       /\ HasKey(Payload, "searchable_content")
          => /\ HoldsWhenGiven(SearchableContent, "text", call.kw.text)
             /\ HoldsWhenGiven(SearchableContent, "embeddings", call.kw.embeddings)
             /\ HoldsWhenGiven(SearchableContent, "metadata", call.kw.metadata)
             /\ HoldsWhenGiven(SearchableContent, "reference", call.kw.references)
             /\ \A i \in 1..Len(SearchableContent.keys) :
                    SearchableContent.keys[i] \in {"text", "embeddings", "metadata", "reference"}
       /\ \A i \in 1..Len(Payload.keys) :
              Payload.keys[i] \in {"query_type", "relation_name", "fields", "values",
                                   "searchable_content", "access_keys"}

\* insert(fields, values, metadata=...) without text posted a
\* searchable_content that holds the metadata alone
C13_Witness ==
    /\ ModifyPosted /\ call.op = "insert"
    /\ Given(call.kw.fields) /\ ~Given(call.kw.text)
    /\ Given(call.kw.metadata) /\ ~Given(call.kw.references)
    /\ HasKey(Payload, "searchable_content")
    /\ SearchableContent.keys = <<"metadata">>

(***************************************************************************)
(* C14: the response shaper is total: for every non-empty body that parses *)
(* as JSON, of any top-level kind, with rows of any length relative to     *)
(* headers, and for both values of each flag, _process_response returns a  *)
(* string and raises nothing.                                              *)
(* Violated: a number, boolean or null body raises TypeError at the        *)
(* `"headers" in response_data` test, a string or array body that contains *)
(* "headers" and "rows" raises TypeError at the subscript, and a first row *)
(* longer than headers raises IndexError when types are included.          *)
(***************************************************************************)
Shaped == Done("lookup") \/ Done("join") \/ Done("vector_search") \/ Done("recursive_query")

C14_ShaperTotal ==
    Shaped /\ call.response.text # "" /\ Body # JSONDecodeError
    => outcome.exc = "" /\ outcome.form \in {"text", "table"}

\* what does hold: an object body without both headers and rows, and an
\* array or string body that does not contain both words, are returned
C14_Lemma_ReturnedWhenNotTabular ==
    /\ Shaped /\ call.response.text # "" /\ Body # JSONDecodeError
    /\ Body.k \in {"dict", "list", "str"}
    /\ ~(Contains(Body, "headers") = "T" /\ Contains(Body, "rows") = "T")
    => outcome = ReturnText(call.response.text)

====
